---- MODULE Spec2Model ----
(***************************************************************************)
(* Model of the planner-mcp tool host: the Tool type with its argument     *)
(* validator (Tool.Run, validateType) and the HTTP dispatcher built by     *)
(* handleMcp (/tools/call, /tools/list, /initialize, /mcp-health) and      *)
(* handle (/health).                                                       *)
(*                                                                         *)
(* Two specifications share the variables:                                 *)
(*   Spec     the server: a registry built from a list of tools, then any  *)
(*            sequence of requests; argument bags arrive as JSON and are   *)
(*            decoded into Go's untyped map;                               *)
(*   SpecRun  Tool.Run called directly on one tool, with any schema and    *)
(*            any bag of Go values (including the Go type int, which the   *)
(*            JSON decoder never produces).                                *)
(***************************************************************************)
EXTENDS Naturals, Sequences, FiniteSets, TLC

VARIABLES tools, toolMap, op, request, run, response

vars == <<tools, toolMap, op, request, run, response>>

(***************************************************************************)
(* Bounds                                                                  *)
(***************************************************************************)
\* longest list of tools handleMcp is given in Spec
MaxTools == 2

(***************************************************************************)
(* Go values held in interface{}: the dynamic type (as %T prints it) and   *)
(* an opaque payload.                                                      *)
(***************************************************************************)
GoString == [T |-> "string", v |-> "CA"]
GoFloat == [T |-> "float64", v |-> "42"]
GoInt == [T |-> "int", v |-> "42"]
GoBool == [T |-> "bool", v |-> "true"]
GoSlice == [T |-> "[]interface {}", v |-> "[]"]
GoMap == [T |-> "map[string]interface {}", v |-> "{}"]
GoNil == [T |-> "<nil>", v |-> "null"]

GoValues == {GoString, GoFloat, GoInt, GoBool, GoSlice, GoMap, GoNil}

(***************************************************************************)
(* JSON values of a request body and their decoding by encoding/json into  *)
(* interface{}: every JSON number becomes a float64.                       *)
(***************************************************************************)
JString == [J |-> "string", v |-> "CA"]
JInteger == [J |-> "number", v |-> "42"]
JFraction == [J |-> "number", v |-> "2.5"]
JBool == [J |-> "boolean", v |-> "true"]
JNull == [J |-> "null", v |-> "null"]
JArray == [J |-> "array", v |-> "[]"]
JObject == [J |-> "object", v |-> "{}"]

JSONValues == {JString, JInteger, JFraction, JBool, JNull, JArray, JObject}

DecodeValue(j) ==
    CASE j.J = "string" -> [T |-> "string", v |-> j.v]
      [] j.J = "number" -> [T |-> "float64", v |-> j.v]
      [] j.J = "boolean" -> [T |-> "bool", v |-> j.v]
      [] j.J = "array" -> [T |-> "[]interface {}", v |-> j.v]
      [] j.J = "object" -> [T |-> "map[string]interface {}", v |-> j.v]
      [] OTHER -> GoNil

\* A Go map[string]interface{}: nil or a finite mapping.
NilMap == [isNil |-> TRUE, kv |-> <<>>]
MakeMap(f) == [isNil |-> FALSE, kv |-> f]

\* "arguments": JSON null (or the key left out) leaves the field nil, a JSON
\* object becomes a map of decoded values.
DecodeArguments(a) ==
    IF a.isNull THEN NilMap
    ELSE MakeMap([k \in DOMAIN a.obj |-> DecodeValue(a.obj[k])])

(***************************************************************************)
(* Errors and results                                                      *)
(***************************************************************************)
NoErr == [isNil |-> TRUE, msg |-> <<>>]
Errorf(msg) == [isNil |-> FALSE, msg |-> msg]
ErrorString(err) == err.msg

ErrMissingRequired(f) == Errorf(<<"missing required field: ", f>>)
ErrInvalidSchema(p) == Errorf(<<"invalid schema definition for property: ", p>>)
ErrMissingType(p) == Errorf(<<"missing or invalid type in schema for property: ", p>>)
ErrTypeMismatch(p, tag, value) ==
    Errorf(<<"invalid type for ", p, ": expected ", tag, ", got ", value.T>>)

NilResult == [isNil |-> TRUE, Content |-> <<>>]
ResultOf(content) == [isNil |-> FALSE, Content |-> content]
TextContent(text) == [Type |-> "text", Text |-> text]

\* What a handler, an opaque capability, may return.
HandlerReturns ==
    { [res |-> ResultOf(<<TextContent("No active alerts for CA")>>), err |-> NoErr],
      [res |-> NilResult, err |-> Errorf(<<"handler failed">>)],
      [res |-> ResultOf(<<TextContent("partial")>>), err |-> Errorf(<<"handler failed">>)],
      [res |-> NilResult, err |-> NoErr] }

(***************************************************************************)
(* Schema descriptors                                                      *)
(***************************************************************************)
SupportedTags == {"string", "number", "integer", "boolean", "array", "object", "null"}

\* a descriptor that is a map with a string "type"
Desc(tag) == [isMap |-> TRUE, typeIsString |-> TRUE, type |-> tag]
\* a descriptor that is a map without "type", or with a non-string one
DescNoType == [isMap |-> TRUE, typeIsString |-> FALSE, type |-> ""]
\* a descriptor that is not a map
DescNotMap == [isMap |-> FALSE, typeIsString |-> FALSE, type |-> ""]

Descriptors == {Desc(tag) : tag \in SupportedTags \cup {"date"}} \cup {DescNoType, DescNotMap}

(***************************************************************************)
(* validateType                                                            *)
(***************************************************************************)
\* a validator whose "string" case accepts any value
validateTypeLax(value, expectedType) ==
    CASE expectedType = "string" -> TRUE
      [] expectedType = "number" -> value.T \in {"float64", "int"}
      [] expectedType = "integer" -> value.T = "int"
      [] expectedType = "boolean" -> value.T = "bool"
      [] expectedType = "array" -> value.T = "[]interface {}"
      [] expectedType = "object" -> value.T = "map[string]interface {}"
      [] expectedType = "null" -> value.T = "<nil>"
      [] OTHER -> FALSE

validateType(value, expectedType) ==
    CASE expectedType = "string" -> value.T = "string"
      [] expectedType = "number" -> value.T = "float64" \/ value.T = "int"
      [] expectedType = "integer" -> value.T = "int"
      [] expectedType = "boolean" -> value.T = "bool"
      [] expectedType = "array" -> value.T = "[]interface {}"
      [] expectedType = "object" -> value.T = "map[string]interface {}"
      [] expectedType = "null" -> value.T = "<nil>"
      [] OTHER -> FALSE

(***************************************************************************)
(* Tool.Run                                                                *)
(***************************************************************************)
\* a lookup whose second result is not honoured
LookupIgnoringOk(input, key) ==
    IF key \in DOMAIN input.kv
    THEN [value |-> input.kv[key], exists |-> TRUE]
    ELSE [value |-> GoNil, exists |-> TRUE]

\* value, exists := input[key]; a missing key yields the zero value nil
Lookup(input, key) ==
    IF key \in DOMAIN input.kv
    THEN [value |-> input.kv[key], exists |-> TRUE]
    ELSE [value |-> GoNil, exists |-> FALSE]

\* params.Args[key] = value; an assignment to a nil map panics
Assign(input, key, value) ==
    [isNil |-> input.isNil,
     kv |-> [k \in (DOMAIN input.kv) \cup {key} |->
                IF k = key THEN value ELSE input.kv[k]]]

\* The loop over InputSchema.Required: the index of the first required field
\* that the bag lacks, 0 when there is none.
RECURSIVE FirstMissingFrom(_, _, _)
FirstMissingFrom(required, input, i) ==
    IF i > Len(required) THEN 0
    ELSE IF ~Lookup(input, required[i]).exists THEN i
    ELSE FirstMissingFrom(required, input, i + 1)

\* a Run that leaves the required fields unchecked
FirstMissingSkipped(required, input) == 0

FirstMissing(required, input) == FirstMissingFrom(required, input, 1)

\* The events of one call of Run, in program order.
EvRequired(f) == <<"required", f>>
EvProperty(p) == <<"property", p>>
EvHandler(name) == <<"handler", name>>

RECURSIVE RequiredEvents(_, _)
RequiredEvents(required, n) ==
    IF n = 0 THEN <<>> ELSE Append(RequiredEvents(required, n - 1), EvRequired(required[n]))

\* The loop over InputSchema.Properties in the iteration order `order` (Go
\* leaves the order of a map range unspecified), from position i on.
RECURSIVE RunProperties(_, _, _, _, _)
RunProperties(t, input, order, i, trace) ==
    IF i > Len(order) THEN [err |-> NoErr, args |-> input, trace |-> trace, panic |-> FALSE]
    ELSE LET propName == order[i]
             d == t.InputSchema.Properties[propName]
             l == Lookup(input, propName)
             tr == Append(trace, EvProperty(propName))
         IN  IF ~l.exists THEN RunProperties(t, input, order, i + 1, trace)
             ELSE IF ~d.isMap
                  THEN [err |-> ErrInvalidSchema(propName), args |-> input,
                        trace |-> tr, panic |-> FALSE]
             ELSE IF ~d.typeIsString
                  THEN [err |-> ErrMissingType(propName), args |-> input,
                        trace |-> tr, panic |-> FALSE]
             ELSE IF ~validateType(l.value, d.type)
                  THEN [err |-> ErrTypeMismatch(propName, d.type, l.value), args |-> input,
                        trace |-> tr, panic |-> FALSE]
             ELSE IF input.isNil
                  THEN [err |-> NoErr, args |-> input, trace |-> tr, panic |-> TRUE]
             ELSE RunProperties(t, Assign(input, propName, l.value), order, i + 1, tr)

\* a validator that also rejects keys the schema does not declare
ValidatePropertiesStrict(t, input, order) ==
    IF \E k \in DOMAIN input.kv : k \notin DOMAIN t.InputSchema.Properties
    THEN [err |-> ErrInvalidSchema(CHOOSE k \in DOMAIN input.kv :
                                        k \notin DOMAIN t.InputSchema.Properties),
          args |-> input, trace |-> <<>>, panic |-> FALSE]
    ELSE RunProperties(t, input, order, 1, <<>>)

ValidateProperties(t, input, order) == RunProperties(t, input, order, 1, <<>>)

\* The iteration orders a range over a map with key set S can take.
Orders(S) ==
    {o \in [1..Cardinality(S) -> S] : \A s \in S : \E i \in 1..Cardinality(S) : o[i] = s}

\* the handler was not called, so it returned nothing
NoReturn == [res |-> NilResult, err |-> NoErr]

NoRun ==
    [ran |-> FALSE, tool |-> 0, params |-> [Name |-> "", Args |-> NilMap],
     res |-> NilResult, err |-> NoErr, trace |-> <<>>, invoked |-> <<>>,
     hret |-> NoReturn, panic |-> FALSE]

\* the handler is started before the arguments are validated
RunHandlerFirst(t, params, order, hret) ==
    LET input == params.Args
        m == FirstMissing(t.InputSchema.Required, input)
        v == ValidateProperties(t, input, order)
        call == <<[handler |-> t.Handler, params |-> params]>>
    IN  IF m # 0
        THEN [ran |-> TRUE, tool |-> t.Handler, params |-> params,
              res |-> NilResult, err |-> ErrMissingRequired(t.InputSchema.Required[m]),
              trace |-> <<EvHandler(t.Name)>> \o RequiredEvents(t.InputSchema.Required, m),
              invoked |-> call, hret |-> hret, panic |-> FALSE]
        ELSE IF ~v.err.isNil \/ v.panic
        THEN [ran |-> TRUE, tool |-> t.Handler, params |-> params,
              res |-> NilResult, err |-> v.err,
              trace |-> <<EvHandler(t.Name)>>
                          \o RequiredEvents(t.InputSchema.Required, Len(t.InputSchema.Required))
                          \o v.trace,
              invoked |-> call, hret |-> hret, panic |-> v.panic]
        ELSE [ran |-> TRUE, tool |-> t.Handler, params |-> params,
              res |-> hret.res, err |-> hret.err,
              trace |-> <<EvHandler(t.Name)>>
                          \o RequiredEvents(t.InputSchema.Required, Len(t.InputSchema.Required))
                          \o v.trace,
              invoked |-> call, hret |-> hret, panic |-> FALSE]

\* func (t *Tool) Run(ctx, params): `order` is the iteration order of the
\* range over Properties, `hret` what the handler returns if it is called.
\* The record keeps the caller's params, Run's return values (res, err), the
\* events of the call and the handler invocations with their parameters.
Run(t, params, order, hret) ==
    LET input == params.Args
        m == FirstMissing(t.InputSchema.Required, input)
        v == ValidateProperties(t, input, order)
    IN  IF m # 0
        THEN [ran |-> TRUE, tool |-> t.Handler, params |-> params,
              res |-> NilResult, err |-> ErrMissingRequired(t.InputSchema.Required[m]),
              trace |-> RequiredEvents(t.InputSchema.Required, m),
              invoked |-> <<>>, hret |-> NoReturn, panic |-> FALSE]
        ELSE IF ~v.err.isNil \/ v.panic
        THEN [ran |-> TRUE, tool |-> t.Handler, params |-> params,
              res |-> NilResult, err |-> v.err,
              trace |-> RequiredEvents(t.InputSchema.Required, Len(t.InputSchema.Required))
                          \o v.trace,
              invoked |-> <<>>, hret |-> NoReturn, panic |-> v.panic]
        ELSE [ran |-> TRUE, tool |-> t.Handler, params |-> params,
              res |-> hret.res, err |-> hret.err,
              trace |-> (RequiredEvents(t.InputSchema.Required, Len(t.InputSchema.Required))
                          \o v.trace) \o <<EvHandler(t.Name)>>,
              invoked |-> <<[handler |-> t.Handler,
                             params |-> [Name |-> params.Name, Args |-> v.args]]>>,
              hret |-> hret, panic |-> FALSE]

(***************************************************************************)
(* The registry and the HTTP handlers of handleMcp and handle              *)
(***************************************************************************)
MakeTool(name, description, schema, handler) ==
    [Name |-> name, Description |-> description, InputSchema |-> schema, Handler |-> handler]

\* the zero Tool a failed map lookup yields
ZeroTool ==
    MakeTool("", "", [Type |-> "", Properties |-> <<>>, Required |-> <<>>], 0)

Names(ts) == {ts[i].Name : i \in 1..Len(ts)}

\* a registry in which the first tool registered under a name is kept
BuildToolMapFirstWins(ts) ==
    [n \in Names(ts) |->
        ts[CHOOSE i \in 1..Len(ts) :
              ts[i].Name = n /\ \A j \in 1..Len(ts) : ts[j].Name = n => j >= i]]

\* toolMap := make(map[string]Tool); for _, t := range tools { toolMap[t.Name] = t }
BuildToolMap(ts) ==
    [n \in Names(ts) |->
        ts[CHOOSE i \in 1..Len(ts) :
              ts[i].Name = n /\ \A j \in 1..Len(ts) : ts[j].Name = n => j <= i]]

\* a lookup that falls back to some registered tool when the name is unknown
LookupToolOrDefault(tm, name) ==
    IF name \in DOMAIN tm THEN [tool |-> tm[name], ok |-> TRUE]
    ELSE IF DOMAIN tm # {} THEN [tool |-> tm[CHOOSE n \in DOMAIN tm : TRUE], ok |-> TRUE]
    ELSE [tool |-> ZeroTool, ok |-> FALSE]

\* tool, ok := toolMap[toolRequest.Name]
LookupTool(tm, name) ==
    IF name \in DOMAIN tm THEN [tool |-> tm[name], ok |-> TRUE]
    ELSE [tool |-> ZeroTool, ok |-> FALSE]

\* What the client gets: the status WriteHeader set, the encoded body, and
\* whether the handler goroutine panicked before it wrote a body.
NoResponse ==
    [status |-> 0, kind |-> "none", error |-> <<>>, result |-> <<>>, tools |-> <<>>,
     text |-> "", fault |-> FALSE]

\* json: map[string]string{"error": msg}
ErrorResponse(status, msg) ==
    [status |-> status, kind |-> "error", error |-> msg, result |-> <<>>, tools |-> <<>>,
     text |-> "", fault |-> FALSE]

\* json encoding of []TextContent
EncodeContent(content) ==
    [i \in 1..Len(content) |-> [type |-> content[i].Type, text |-> content[i].Text]]

\* json: {"status": "success", "result": res.Content}
SuccessResponse(content) ==
    [status |-> 200, kind |-> "success", error |-> <<>>, result |-> EncodeContent(content),
     tools |-> <<>>, text |-> "", fault |-> FALSE]

\* WriteHeader(200) was called, then evaluating res.Content on a nil res
\* panics: no body is written.
PanicResponse ==
    [status |-> 200, kind |-> "none", error |-> <<>>, result |-> <<>>, tools |-> <<>>,
     text |-> "", fault |-> TRUE]

TextResponse(status, text) ==
    [status |-> status, kind |-> "text", error |-> <<>>, result |-> <<>>, tools |-> <<>>,
     text |-> text, fault |-> FALSE]

\* json encoding of a Tool: Handler has the tag "-", required is omitempty
EncodeTool(t) ==
    IF Len(t.InputSchema.Required) = 0
    THEN [name |-> t.Name, description |-> t.Description,
          inputSchema |-> [type |-> t.InputSchema.Type,
                           properties |-> t.InputSchema.Properties]]
    ELSE [name |-> t.Name, description |-> t.Description,
          inputSchema |-> [type |-> t.InputSchema.Type,
                           properties |-> t.InputSchema.Properties,
                           required |-> t.InputSchema.Required]]

EncodeToolList(ts) == [i \in 1..Len(ts) |-> EncodeTool(ts[i])]

ToolsListResponse(ts) ==
    [status |-> 200, kind |-> "tools", error |-> <<>>, result |-> <<>>,
     tools |-> EncodeToolList(ts), text |-> "", fault |-> FALSE]

\* the static ServerInitialization literal
initialize ==
    [jsonrpc |-> "2.0", id |-> 1,
     result |-> [protocolVersion |-> "2024-11-05",
                 serverInfo |-> [name |-> "hermes-planner", version |-> "0.0.1"]]]

InitializeResponse ==
    [status |-> 200, kind |-> "initialize", error |-> <<>>, result |-> <<>>, tools |-> <<>>,
     text |-> initialize.result.serverInfo.name, fault |-> FALSE]

\* the part of /tools/call after the lookup succeeded
CallResponse(r) ==
    IF r.panic THEN PanicResponse
    ELSE IF ~r.err.isNil THEN ErrorResponse(500, ErrorString(r.err))
    ELSE IF r.res.isNil THEN PanicResponse
    ELSE SuccessResponse(r.res.Content)

(***************************************************************************)
(* Inputs                                                                  *)
(***************************************************************************)
ToolNames == {"get-forecast", "get-alerts"}
RequestNames == ToolNames \cup {"get-tides"}

Description(name) ==
    IF name = "get-forecast" THEN "Get weather alerts for a state" ELSE "Another tool"

Schema(properties, required) ==
    [Type |-> "object", Properties |-> properties, Required |-> required]

\* The schemas of the tools the server is built from: the shape of
\* weatherTool's schema, one required property, with each supported tag.
ServerSchemas ==
    {Schema([k \in {"state"} |-> Desc(tag)], <<"state">>) : tag \in SupportedTags}

ToolConfigs == {[Name |-> n, InputSchema |-> s] : n \in ToolNames, s \in ServerSchemas}

\* Lists of tools; the handler of the i-th tool of a list is called i.
ToolLists ==
    UNION {{[i \in 1..n |->
               MakeTool(cfg[i].Name, Description(cfg[i].Name), cfg[i].InputSchema, i)] :
            cfg \in [1..n -> ToolConfigs]} : n \in 0..MaxTools}

\* JSON "arguments": null or left out, or an object
NullArguments == [isNull |-> TRUE, obj |-> <<>>]
ArgumentObjects ==
    UNION {[K -> JSONValues] : K \in SUBSET {"state"}}
      \cup {[k \in {"state", "note"} |-> JString], [k \in {"note"} |-> JString]}
RequestArguments ==
    {NullArguments} \cup {[isNull |-> FALSE, obj |-> o] : o \in ArgumentObjects}

\* a body the JSON decoder rejects
MalformedBody == [wellFormed |-> FALSE, name |-> "", arguments |-> NullArguments]
RequestBodies ==
    {MalformedBody}
      \cup {[wellFormed |-> TRUE, name |-> n, arguments |-> a] :
               n \in RequestNames, a \in RequestArguments}

NoRequest == [wellFormed |-> TRUE, name |-> "", arguments |-> NullArguments]

\* Schemas and bags for direct calls of Tool.Run
PropKeys == {"state", "limit"}
PropertyMaps == UNION {[K -> Descriptors] : K \in SUBSET PropKeys}
RequiredLists ==
    {<<>>, <<"state">>, <<"limit">>, <<"state", "limit">>, <<"limit", "state">>}
RunSchemas == {Schema(p, r) : p \in PropertyMaps, r \in RequiredLists}
RunBags == {NilMap} \cup {MakeMap(f) : f \in UNION {[K -> GoValues] : K \in SUBSET PropKeys}}

(***************************************************************************)
(* The server                                                              *)
(***************************************************************************)
Init ==
    /\ tools \in ToolLists
    /\ toolMap = BuildToolMap(tools)
    /\ op = "start"
    /\ request = NoRequest
    /\ run = NoRun
    /\ response = NoResponse

\* Whether Run reaches the handler: only then does the handler return anything.
ReachesHandler(t, params, order) == Run(t, params, order, NoReturn).invoked # <<>>

\* POST /mcp/tools/call
ToolsCall ==
    /\ \E body \in RequestBodies :
         /\ request' = body
         /\ IF ~body.wellFormed
            THEN /\ run' = NoRun
                 /\ response' = ErrorResponse(400, <<"Invalid request format">>)
            ELSE LET toolRequest == [Name |-> body.name,
                                     Arguments |-> DecodeArguments(body.arguments)]
                     params == [Name |-> toolRequest.Name, Args |-> toolRequest.Arguments]
                     l == LookupTool(toolMap, toolRequest.Name)
                 IN  IF l.ok
                     THEN \E order \in Orders(DOMAIN l.tool.InputSchema.Properties) :
                          \E hret \in IF ReachesHandler(l.tool, params, order)
                                      THEN HandlerReturns ELSE {NoReturn} :
                            /\ run' = Run(l.tool, params, order, hret)
                            /\ response' = CallResponse(run')
                     ELSE /\ run' = NoRun
                          /\ response' =
                               ErrorResponse(404, <<"Tool not found: ", toolRequest.Name>>)
    /\ op' = "call"
    /\ UNCHANGED <<tools, toolMap>>

\* GET /mcp/tools/list
ToolsList ==
    /\ op' = "list"
    /\ request' = NoRequest
    /\ run' = NoRun
    /\ response' = ToolsListResponse(tools)
    /\ UNCHANGED <<tools, toolMap>>

\* /mcp/initialize
Initialize ==
    /\ op' = "initialize"
    /\ request' = NoRequest
    /\ run' = NoRun
    /\ response' = InitializeResponse
    /\ UNCHANGED <<tools, toolMap>>

\* /health
Health ==
    /\ op' = "health"
    /\ request' = NoRequest
    /\ run' = NoRun
    /\ response' = TextResponse(200, "OK")
    /\ UNCHANGED <<tools, toolMap>>

\* /mcp/mcp-health
McpHealth ==
    /\ op' = "mcp-health"
    /\ request' = NoRequest
    /\ run' = NoRun
    /\ response' = TextResponse(200, "OK")
    /\ UNCHANGED <<tools, toolMap>>

Next == ToolsCall \/ ToolsList \/ Initialize \/ Health \/ McpHealth

Spec == Init /\ [][Next]_vars

(***************************************************************************)
(* Tool.Run called directly                                                *)
(***************************************************************************)
\* Run keeps no state between calls and the Tool is immutable, so one call
\* per behaviour covers it: InitRun draws the schema and the bag, DirectRun
\* applies Run to them.
InitRun ==
    /\ \E s \in RunSchemas :
         tools = <<MakeTool("get-forecast", Description("get-forecast"), s, 1)>>
    /\ toolMap = BuildToolMap(tools)
    /\ op = "start"
    /\ request = NoRequest
    /\ \E bag \in RunBags :
         run = [NoRun EXCEPT !.params = [Name |-> "get-forecast", Args |-> bag]]
    /\ response = NoResponse

DirectRun ==
    /\ op = "start"
    /\ \E order \in Orders(DOMAIN tools[1].InputSchema.Properties) :
       \E hret \in IF ReachesHandler(tools[1], run.params, order)
                   THEN HandlerReturns ELSE {NoReturn} :
         run' = Run(tools[1], run.params, order, hret)
    /\ op' = "run"
    /\ UNCHANGED <<tools, toolMap, request, response>>

NextRun == DirectRun

SpecRun == InitRun /\ [][NextRun]_vars

(***************************************************************************)
(* Vocabulary of the properties, stated on schemas and bags independently  *)
(* of the validator                                                        *)
(***************************************************************************)
\* the dynamic type of a Go value matches a schema type tag
DynamicMatch(value, tag) ==
    \/ tag = "string" /\ value.T = "string"
    \/ tag = "number" /\ value.T \in {"float64", "int"}
    \/ tag = "integer" /\ value.T = "int"
    \/ tag = "boolean" /\ value.T = "bool"
    \/ tag = "array" /\ value.T = "[]interface {}"
    \/ tag = "object" /\ value.T = "map[string]interface {}"
    \/ tag = "null" /\ value.T = "<nil>"

\* a JSON value matches a schema type tag
JSONMatch(j, tag) ==
    \/ tag = "string" /\ j.J = "string"
    \/ tag = "number" /\ j.J = "number"
    \/ tag = "integer" /\ j.J = "number" /\ j.v = "42"
    \/ tag = "boolean" /\ j.J = "boolean"
    \/ tag = "array" /\ j.J = "array"
    \/ tag = "object" /\ j.J = "object"
    \/ tag = "null" /\ j.J = "null"

Declared(S) == DOMAIN S.Properties
Present(B) == DOMAIN B.kv
RequiredNames(S) == {S.Required[i] : i \in 1..Len(S.Required)}
MissingRequired(S, B) == RequiredNames(S) \ Present(B)

HasTag(S, p) == S.Properties[p].isMap /\ S.Properties[p].typeIsString

Mismatched(S, B, p) ==
    /\ p \in Declared(S) \cap Present(B)
    /\ HasTag(S, p)
    /\ ~DynamicMatch(B.kv[p], S.Properties[p].type)

IllDescribed(S, B, p) ==
    /\ p \in Declared(S) \cap Present(B)
    /\ ~HasTag(S, p)

FailingProperties(S, B) == {p \in Declared(S) : Mismatched(S, B, p) \/ IllDescribed(S, B, p)}

ValidBag(S, B) == MissingRequired(S, B) = {} /\ FailingProperties(S, B) = {}

MissingRequiredError(f) == [isNil |-> FALSE, msg |-> <<"missing required field: ", f>>]
TypeMismatchError(p, expected, actual) ==
    [isNil |-> FALSE, msg |-> <<"invalid type for ", p, ": expected ", expected, ", got ", actual>>]
NotFoundResponse(name) ==
    [status |-> 404, kind |-> "error", error |-> <<"Tool not found: ", name>>,
     result |-> <<>>, tools |-> <<>>, text |-> "", fault |-> FALSE]

\* the schema and the bag of the direct call of Run
RunSchema == tools[1].InputSchema
RunBag == run.params.Args

HandlerEventAt(i) == run.trace[i][1] = "handler"
HandlerStarted == \E i \in 1..Len(run.trace) : HandlerEventAt(i)
Checked(ev) == \E i \in 1..Len(run.trace) : run.trace[i] = ev

\* the bag without the keys in K
Without(B, K) == [isNil |-> B.isNil, kv |-> [k \in (DOMAIN B.kv) \ K |-> B.kv[k]]]

\* Run on bag B reaches the handler, whatever the iteration order
Passes(t, B) ==
    \A order \in Orders(DOMAIN t.InputSchema.Properties) :
        ReachesHandler(t, [Name |-> t.Name, Args |-> B], order)
Rejects(t, B) ==
    \A order \in Orders(DOMAIN t.InputSchema.Properties) :
        ~ReachesHandler(t, [Name |-> t.Name, Args |-> B], order)

(***************************************************************************)
(* Properties of Tool.Run (checked under SpecRun)                          *)
(***************************************************************************)
\* C1: when a name in the schema's required list is absent from the bag, Run
\* returns no result and the missing-required-field error naming a required
\* field that is absent, and the handler is not invoked.
C1_MissingRequiredFails ==
    (run.ran /\ MissingRequired(RunSchema, RunBag) # {}) =>
        /\ run.res.isNil
        /\ \E f \in MissingRequired(RunSchema, RunBag) : run.err = MissingRequiredError(f)
        /\ run.invoked = <<>>
        /\ ~HandlerStarted

C1_Witness ==
    /\ run.ran
    /\ "limit" \in MissingRequired(RunSchema, RunBag)
    /\ "state" \in Present(RunBag)
    /\ run.err = MissingRequiredError("limit")

\* C2 as claimed: whenever a declared property p is present with a dynamic
\* type that does not match its tag, Run fails with the type-mismatch error
\* for p, whatever else is wrong with the bag or the schema.
C2_MismatchAlwaysReported ==
    run.ran =>
        \A p \in Declared(RunSchema) :
            Mismatched(RunSchema, RunBag, p) =>
                run.err = TypeMismatchError(p, RunSchema.Properties[p].type, RunBag.kv[p].T)

\* C2 as amended: such a call always fails without invoking the handler, and
\* the error is the type-mismatch error for p, with the expected tag and the
\* actual dynamic type, when no required field is missing and p is the only
\* declared and present property that fails its check.
C2_MismatchFails ==
    run.ran =>
        \A p \in Declared(RunSchema) :
            Mismatched(RunSchema, RunBag, p) =>
                /\ run.res.isNil
                /\ ~run.err.isNil
                /\ run.invoked = <<>>
                /\ (MissingRequired(RunSchema, RunBag) = {}
                      /\ FailingProperties(RunSchema, RunBag) = {p})
                    => run.err = TypeMismatchError(p, RunSchema.Properties[p].type,
                                                   RunBag.kv[p].T)

C2_Witness ==
    /\ run.ran
    /\ RunSchema.Required = <<"state">>
    /\ Mismatched(RunSchema, RunBag, "state")
    /\ FailingProperties(RunSchema, RunBag) = {"state"}
    /\ run.err = TypeMismatchError("state", "string", "float64")

\* C7: in one call the handler starts at most once and only as the last
\* event, after the presence check of every required field and the check of
\* every declared and present property; when validation fails Run returns a
\* nil result and a non-nil error and the handler is not invoked.
C7_ValidationBeforeHandler ==
    run.ran =>
        /\ \A i \in 1..Len(run.trace) : HandlerEventAt(i) => i = Len(run.trace)
        /\ HandlerStarted <=> run.invoked # <<>>
        /\ HandlerStarted =>
              /\ \A f \in RequiredNames(RunSchema) : Checked(EvRequired(f))
              /\ \A p \in Declared(RunSchema) \cap Present(RunBag) : Checked(EvProperty(p))
        /\ ~ValidBag(RunSchema, RunBag) =>
              /\ run.res.isNil
              /\ ~run.err.isNil
              /\ run.invoked = <<>>
              /\ ~HandlerStarted

C7_Witness ==
    /\ run.ran
    /\ MissingRequired(RunSchema, RunBag) = {}
    /\ FailingProperties(RunSchema, RunBag) # {}
    /\ Len(run.trace) >= 3
    /\ run.invoked = <<>>
    /\ ~run.err.isNil

\* C9 as claimed: taking away from the bag any keys that the schema's
\* properties do not declare leaves the verdict of validation unchanged, and
\* such keys reach the handler with their values.
C9_ExtraKeysIrrelevant ==
    run.ran =>
        /\ \A K \in SUBSET (Present(RunBag) \ Declared(RunSchema)) :
              /\ run.invoked # <<>> => Passes(tools[1], Without(RunBag, K))
              /\ run.invoked = <<>> => Rejects(tools[1], Without(RunBag, K))
        /\ run.invoked # <<>> =>
              \A k \in Present(RunBag) \ Declared(RunSchema) :
                  /\ k \in Present(run.invoked[1].params.Args)
                  /\ run.invoked[1].params.Args.kv[k] = RunBag.kv[k]

\* C9 as amended: the same for keys that are neither declared in the
\* schema's properties nor named in its required list.
C9_UndeclaredOptionalKeysIrrelevant ==
    run.ran =>
        /\ \A K \in SUBSET ((Present(RunBag) \ Declared(RunSchema)) \ RequiredNames(RunSchema)) :
              /\ run.invoked # <<>> => Passes(tools[1], Without(RunBag, K))
              /\ run.invoked = <<>> => Rejects(tools[1], Without(RunBag, K))
        /\ run.invoked # <<>> =>
              \A k \in Present(RunBag) \ Declared(RunSchema) :
                  /\ k \in Present(run.invoked[1].params.Args)
                  /\ run.invoked[1].params.Args.kv[k] = RunBag.kv[k]

C9_Witness ==
    /\ run.ran
    /\ Declared(RunSchema) = {"state"}
    /\ RunSchema.Required = <<"state">>
    /\ Present(RunBag) = {"state", "limit"}
    /\ Len(run.invoked) = 1
    /\ run.invoked[1].params.Args.kv["limit"] = GoInt

\* C10: validation fails only because a required field is missing or a
\* declared property that is present fails its check, never because of a
\* declared property the bag lacks; with no required field and an empty bag
\* the handler is invoked, once, with the empty bag.
C10_AbsentOptionalNeverFails ==
    run.ran =>
        /\ ValidBag(RunSchema, RunBag) =>
              /\ Len(run.invoked) = 1
              /\ run.invoked[1].params.Args = RunBag
        /\ (RunSchema.Required = <<>> /\ Present(RunBag) = {}) =>
              /\ Len(run.invoked) = 1
              /\ Present(run.invoked[1].params.Args) = {}

C10_Witness ==
    /\ run.ran
    /\ RunSchema.Required = <<>>
    /\ Declared(RunSchema) = {"state", "limit"}
    /\ ~HasTag(RunSchema, "state")
    /\ RunSchema.Properties["limit"].type = "integer"
    /\ ~RunBag.isNil
    /\ Present(RunBag) = {}
    /\ Len(run.invoked) = 1

(***************************************************************************)
(* Properties of the server (checked under Spec)                           *)
(***************************************************************************)
Called == op = "call" /\ request.wellFormed
RegisteredNames == {tools[i].Name : i \in 1..Len(tools)}
\* the position in the list of the tool that dispatch resolves a name to
Registered(name) ==
    CHOOSE i \in 1..Len(tools) :
        tools[i].Name = name /\ \A j \in 1..Len(tools) : tools[j].Name = name => j <= i
RequestBag == DecodeArguments(request.arguments)

\* C3: a call whose JSON argument for a declared property with a supported
\* tag matches the tag does not fail validation of that property.
C3_MatchingValueAccepted ==
    (Called /\ request.name \in RegisteredNames /\ ~request.arguments.isNull) =>
        LET S == tools[Registered(request.name)].InputSchema
        IN  \A p \in Declared(S) \cap DOMAIN request.arguments.obj :
                (HasTag(S, p) /\ S.Properties[p].type \in SupportedTags
                   /\ JSONMatch(request.arguments.obj[p], S.Properties[p].type))
                => /\ run.err # TypeMismatchError(p, S.Properties[p].type, RequestBag.kv[p].T)
                   /\ Checked(EvProperty(p))
                   /\ response.status # 500 \/ response.error = ErrorString(run.hret.err)

\* C4: a call naming a tool that is not registered is answered by the
\* not-found error naming the requested tool, and no handler is invoked.
C4_UnknownToolNotFound ==
    (Called /\ request.name \notin RegisteredNames) =>
        /\ response = NotFoundResponse(request.name)
        /\ ~run.ran
        /\ run.invoked = <<>>

C4_Witness ==
    /\ Called
    /\ Len(tools) = 2
    /\ request.name = "get-tides"
    /\ ~request.arguments.isNull
    /\ response.status = 404

\* C5: a call naming a registered tool with a bag that is valid for its
\* schema invokes the handler of the tool registered under that name, once,
\* with the caller's name and bag, and Run returns what the handler returned.
C5_DispatchInvokesRegisteredHandler ==
    (Called /\ request.name \in RegisteredNames
       /\ ValidBag(tools[Registered(request.name)].InputSchema, RequestBag))
    => /\ run.ran
       /\ Len(run.invoked) = 1
       /\ run.invoked[1].handler = tools[Registered(request.name)].Handler
       /\ run.invoked[1].params = [Name |-> request.name, Args |-> RequestBag]
       /\ run.res = run.hret.res
       /\ run.err = run.hret.err

C5_Witness ==
    /\ Called
    /\ Len(tools) = 2
    /\ tools[1].Name = tools[2].Name
    /\ tools[1].InputSchema # tools[2].InputSchema
    /\ Len(run.invoked) = 1
    /\ run.invoked[1].handler = 2
    /\ ~run.res.isNil

NoSharedName(entries) ==
    \A i, j \in 1..Len(entries) : entries[i].name = entries[j].name => i = j

\* C6: List answers with one entry per registered tool, no two entries with
\* the same name, whatever requests came before.
C6_ListOnePerRegisteredTool ==
    op = "list" =>
        /\ response.status = 200
        /\ Len(response.tools) = Cardinality(DOMAIN toolMap)
        /\ NoSharedName(response.tools)
        /\ \A n \in DOMAIN toolMap :
              \E i \in 1..Len(response.tools) : response.tools[i] = EncodeTool(toolMap[n])

\* C8: every decoded call is answered without a fault: not-found for an
\* unknown name, the error's message when Run returns an error, and
\* otherwise status "success" with the content of the handler's result.
C8_CallAlwaysAnswered ==
    Called =>
        /\ ~response.fault
        /\ request.name \notin RegisteredNames => response = NotFoundResponse(request.name)
        /\ (request.name \in RegisteredNames /\ ~run.err.isNil) =>
              response.kind = "error" /\ response.error = run.err.msg
        /\ (request.name \in RegisteredNames /\ run.err.isNil) =>
              /\ response.kind = "success"
              /\ Len(response.result) = Len(run.hret.res.Content)
              /\ \A i \in 1..Len(response.result) :
                    response.result[i].text = run.hret.res.Content[i].Text

====
